---- MODULE Spec2Model ----
(***************************************************************************)
(* Model of sameervitian/dlock: a client-side distributed lock on top of   *)
(* Consul sessions.  Two variants of the client live in the repository:    *)
(* the current one (type Dlock, src/dlock.go:1-195) and the legacy one     *)
(* (type Client, src/dlock.go:197-380).  The caller is the acquire loop of *)
(* the example program (src/dlock.go:417-432).                             *)
(*                                                                         *)
(* Every goroutine is a task with a program counter; a step of the model   *)
(* is one task running from one collaborator call or channel operation to  *)
(* the next.  Session ids are 1..MaxSessions, 0 is the empty string.       *)
(*                                                                         *)
(* The collaborator (Consul) is the environment: a session exists from     *)
(* Session.Create until it expires or is destroyed, the lock key is owned  *)
(* by at most one session and is freed when that session goes away, and    *)
(* any call may fail with an error.  lock.Lock grants the key to a session *)
(* that exists when the key is free or already owned by that session.      *)
(*                                                                         *)
(* Spec is one Dlock with all its goroutines, SpecD the same with one     *)
(* more DestroySession call, SpecA two Dlocks competing for the key,       *)
(* SpecVariants one client of either variant, FairSpec one Dlock with a    *)
(* fairly scheduled retry loop, FairEpisodes one Dlock with fairly         *)
(* scheduled watcher and renewal goroutines.                               *)
(***************************************************************************)
EXTENDS Integers, Sequences, FiniteSets, TLC

\* Bounds of the model.
MaxCalls == 2       \* RetryLockAcquire invocations per client of the current variant
MaxLegacyCalls == 1 \* RetryLockAcquire invocations per client of the legacy variant
MaxSessions == 3    \* sessions the collaborator ever creates
MaxDestroy == 1     \* DestroySession calls per client

Clients == {1, 2}
Calls == 1..MaxCalls

VARIABLES
    variant,            \* variant[c]: "Dlock", "Client" (legacy) or "off" (no such client)
    destroys,           \* destroys[c]: DestroySession calls the caller of c may make
    SessionID,          \* d.SessionID, 0 = ""
    PermanentRelease,   \* d.PermanentRelease (no such field in Client: stays FALSE)
    loop,               \* loop[c][i]: the i-th RetryLockAcquire goroutine of c
    callerPc,           \* position of the caller's acquire loop
    calls,              \* RetryLockAcquire invocations made so far
    episodes,           \* episodes[c]: one record per successful attach
    nAcq,               \* values the caller received from acquireCh
    nRel,               \* values the caller received from releaseCh
    dpc,                \* position of the DestroySession call in progress
    dres,               \* what the last DestroySession call returned
    dcalls,             \* DestroySession calls made so far
    live,               \* collaborator: sessions that exist
    holder,             \* collaborator: session owning the lock key, 0 = none
    nextSid             \* collaborator: next session id to hand out

vars == <<variant, destroys, SessionID, PermanentRelease, loop, callerPc, calls, episodes,
          nAcq, nRel, dpc, dres, dcalls, live, holder, nextSid>>

cfgVars == <<variant, destroys>>
clientVars == <<SessionID, PermanentRelease>>
callerVars == <<callerPc, calls, nAcq, nRel>>
destroyVars == <<dpc, dres, dcalls>>
consulVars == <<live, holder, nextSid>>

\* A RetryLockAcquire goroutine that was not started yet (or has returned).
\*   pc      where it stands
\*   ls      the Session of the LockOptions built at line 144
\*   ret     what the last acquireLock call returned: "none", "err", "false", "true"
\*   stopped ticker.Stop() was called
\*   tick    a tick is buffered in ticker.C
\*   d       what DestroySession had achieved when the goroutine was started:
\*           "ok" (session destroyed, nil returned), "empty" (nil returned for
\*           an empty SessionID) or "none"
NoLoop == [pc |-> "none", ls |-> 0, ret |-> "none", stopped |-> FALSE, tick |-> FALSE,
           d |-> "none"]

\* A goroutine waiting on a stopped ticker with no tick left never runs again.
Blocked == [pc |-> "blocked", ls |-> 0, ret |-> "none", stopped |-> TRUE, tick |-> FALSE,
            d |-> "none"]

Park(r) == IF r.pc = "wait" /\ r.stopped /\ ~r.tick THEN Blocked ELSE r

SetLoop(c, i, r) == [loop EXCEPT ![c][i] = Park(r)]

\* The lock key is released when the session that owns it goes away.
Release(s) == IF holder = s THEN 0 ELSE holder

InitCommon ==
    /\ SessionID = [c \in Clients |-> 0]
    /\ PermanentRelease = [c \in Clients |-> FALSE]
    /\ loop = [c \in Clients |-> [i \in Calls |-> NoLoop]]
    /\ callerPc = [c \in Clients |-> "start"]
    /\ calls = [c \in Clients |-> 0]
    /\ episodes = [c \in Clients |-> <<>>]
    /\ nAcq = [c \in Clients |-> 0]
    /\ nRel = [c \in Clients |-> 0]
    /\ dpc = [c \in Clients |-> "idle"]
    /\ dres = [c \in Clients |-> "none"]
    /\ dcalls = [c \in Clients |-> 0]
    /\ live = {}
    /\ holder = 0
    /\ nextSid = 1

\* One client of the current variant.
Init ==
    /\ variant = [c \in Clients |-> IF c = 1 THEN "Dlock" ELSE "off"]
    /\ destroys = [c \in Clients |-> IF c = 1 THEN MaxDestroy ELSE 0]
    /\ InitCommon

\* One client, of the current or of the legacy variant.
InitVariants ==
    /\ \E v \in {"Dlock", "Client"} :
          variant = [c \in Clients |-> IF c = 1 THEN v ELSE "off"]
    /\ destroys = [c \in Clients |-> IF c = 1 THEN MaxDestroy ELSE 0]
    /\ InitCommon

\* Two clients of the current variant competing for the same key; the first
\* one's caller may call DestroySession.
InitA ==
    /\ variant = [c \in Clients |-> "Dlock"]
    /\ destroys = [c \in Clients |-> IF c = 1 THEN MaxDestroy ELSE 0]
    /\ InitCommon

----------------------------------------------------------------------------
\* The caller: for { go d.RetryLockAcquire(...); <-acquireCh; <-releaseCh }

DestroyedSoFar(c) ==
    IF PermanentRelease[c] THEN "ok" ELSE IF dres[c] = "empty" THEN "empty" ELSE "none"

CallBudget(c) == IF variant[c] = "Client" THEN MaxLegacyCalls ELSE MaxCalls

CallerStart(c) ==
    /\ variant[c] # "off"
    /\ callerPc[c] = "start"
    /\ calls[c] < CallBudget(c)
    /\ calls' = [calls EXCEPT ![c] = @ + 1]
    /\ loop' = SetLoop(c, calls[c] + 1, [NoLoop EXCEPT !.pc = "entry", !.d = DestroyedSoFar(c)])
    /\ callerPc' = [callerPc EXCEPT ![c] = "waitAcq"]
    /\ UNCHANGED <<cfgVars, clientVars, episodes, nAcq, nRel, destroyVars, consulVars>>

----------------------------------------------------------------------------
\* RetryLockAcquire

\* Faulty variant: the loop is entered without looking at PermanentRelease.
MutDlockRetryEntry(c, i) ==
    /\ variant[c] = "Dlock"
    /\ loop[c][i].pc = "entry"
    /\ loop' = SetLoop(c, i, [loop[c][i] EXCEPT !.pc = "acquire"])
    /\ UNCHANGED <<cfgVars, clientVars, callerVars, episodes, destroyVars, consulVars>>

\* Faulty variant: an invocation that finds PermanentRelease set takes it
\* back and runs the loop.
MutDlockRetryEntryResets(c, i) ==
    /\ variant[c] = "Dlock"
    /\ loop[c][i].pc = "entry"
    /\ loop' = SetLoop(c, i, [loop[c][i] EXCEPT !.pc = "acquire"])
    /\ PermanentRelease' = [PermanentRelease EXCEPT ![c] = FALSE]
    /\ UNCHANGED <<cfgVars, SessionID, callerVars, episodes, destroyVars, consulVars>>

\* Dlock: the PermanentRelease check on entry, then the first loop iteration.
DlockRetryEntry(c, i) ==
    /\ variant[c] = "Dlock"
    /\ loop[c][i].pc = "entry"
    /\ loop' = SetLoop(c, i, [loop[c][i] EXCEPT
                    !.pc = IF PermanentRelease[c] THEN "noop" ELSE "acquire"])
    /\ UNCHANGED <<cfgVars, clientVars, callerVars, episodes, destroyVars, consulVars>>

\* Client: no check, the loop starts at once.
ClientRetryEntry(c, i) ==
    /\ variant[c] = "Client"
    /\ loop[c][i].pc = "entry"
    /\ loop' = SetLoop(c, i, [loop[c][i] EXCEPT !.pc = "acquire"])
    /\ UNCHANGED <<cfgVars, clientVars, callerVars, episodes, destroyVars, consulVars>>

\* <-ticker.C: a running ticker ticks; a stopped one only yields a tick that
\* was already buffered when it was stopped.
Tick(c, i) ==
    /\ loop[c][i].pc = "wait"
    /\ ~loop[c][i].stopped \/ loop[c][i].tick
    /\ loop' = SetLoop(c, i, [loop[c][i] EXCEPT
                    !.pc = "acquire", !.tick = FALSE, !.ret = "none"])
    /\ UNCHANGED <<cfgVars, clientVars, callerVars, episodes, destroyVars, consulVars>>

\* Faulty variant: a failed session creation ends RetryLockAcquire.
MutAcquireSessionReturn(c, i) ==
    /\ loop[c][i].pc = "acquire"
    /\ \/ /\ SessionID[c] = 0
          /\ nextSid <= MaxSessions
          /\ SessionID' = [SessionID EXCEPT ![c] = nextSid]
          /\ live' = live \cup {nextSid}
          /\ nextSid' = nextSid + 1
          /\ loop' = SetLoop(c, i, [loop[c][i] EXCEPT !.pc = "info", !.ls = nextSid])
          /\ UNCHANGED holder
       \/ /\ SessionID[c] = 0
          /\ loop' = SetLoop(c, i, [loop[c][i] EXCEPT !.pc = "returned", !.ls = 0, !.ret = "err"])
          /\ UNCHANGED <<SessionID, consulVars>>
       \/ /\ SessionID[c] # 0
          /\ loop' = SetLoop(c, i, [loop[c][i] EXCEPT !.pc = "info", !.ls = SessionID[c]])
          /\ UNCHANGED <<SessionID, consulVars>>
    /\ UNCHANGED <<cfgVars, PermanentRelease, callerVars, episodes, destroyVars>>

\* Faulty variant: the error of recreateSession is dropped and acquireLock
\* goes on with the empty SessionID.
MutAcquireSessionGoesOn(c, i) ==
    /\ loop[c][i].pc = "acquire"
    /\ \/ /\ SessionID[c] = 0
          /\ nextSid <= MaxSessions
          /\ SessionID' = [SessionID EXCEPT ![c] = nextSid]
          /\ live' = live \cup {nextSid}
          /\ nextSid' = nextSid + 1
          /\ loop' = SetLoop(c, i, [loop[c][i] EXCEPT !.pc = "info", !.ls = nextSid])
          /\ UNCHANGED holder
       \/ /\ loop' = SetLoop(c, i, [loop[c][i] EXCEPT !.pc = "info", !.ls = SessionID[c]])
          /\ UNCHANGED <<SessionID, consulVars>>
    /\ UNCHANGED <<cfgVars, PermanentRelease, callerVars, episodes, destroyVars>>

\* acquireLock, first part: recreateSession when SessionID is empty, then
\* the LockOptions are built with the current SessionID.
AcquireSession(c, i) ==
    /\ loop[c][i].pc = "acquire"
    /\ \/ /\ SessionID[c] = 0               \* Session.Create succeeds
          /\ nextSid <= MaxSessions
          /\ SessionID' = [SessionID EXCEPT ![c] = nextSid]
          /\ live' = live \cup {nextSid}
          /\ nextSid' = nextSid + 1
          /\ loop' = SetLoop(c, i, [loop[c][i] EXCEPT !.pc = "info", !.ls = nextSid])
          /\ UNCHANGED holder
       \/ /\ SessionID[c] = 0               \* Agent.Checks or Session.Create fails
          /\ loop' = SetLoop(c, i, [loop[c][i] EXCEPT !.pc = "wait", !.ls = 0, !.ret = "err"])
          /\ UNCHANGED <<SessionID, consulVars>>
       \/ /\ SessionID[c] # 0
          /\ loop' = SetLoop(c, i, [loop[c][i] EXCEPT !.pc = "info", !.ls = SessionID[c]])
          /\ UNCHANGED <<SessionID, consulVars>>
    /\ UNCHANGED <<cfgVars, PermanentRelease, callerVars, episodes, destroyVars>>

\* Faulty variant: a session that is gone is reported, but SessionID is kept.
MutSessionInfoKeep(c, i) ==
    /\ loop[c][i].pc = "info"
    /\ \/ /\ SessionID[c] \notin live
          /\ loop' = SetLoop(c, i, [loop[c][i] EXCEPT !.pc = "wait", !.ls = 0, !.ret = "false"])
       \/ /\ loop' = SetLoop(c, i, [loop[c][i] EXCEPT !.pc = "wait", !.ls = 0, !.ret = "err"])
       \/ /\ SessionID[c] \in live
          /\ loop' = SetLoop(c, i, [loop[c][i] EXCEPT !.pc = "lock"])
    /\ UNCHANGED <<cfgVars, clientVars, callerVars, episodes, destroyVars, consulVars>>

\* Faulty variant: the a == nil check is missing, the attach follows any answer
\* that is not an error.
MutSessionInfoLive(c, i) ==
    /\ loop[c][i].pc = "info"
    /\ \/ loop' = SetLoop(c, i, [loop[c][i] EXCEPT !.pc = "wait", !.ls = 0, !.ret = "err"])
       \/ loop' = SetLoop(c, i, [loop[c][i] EXCEPT !.pc = "lock"])
    /\ UNCHANGED <<cfgVars, clientVars, callerVars, episodes, destroyVars, consulVars>>

\* acquireLock, Session().Info(d.SessionID): nil without error means the
\* session is gone.
SessionInfo(c, i) ==
    /\ loop[c][i].pc = "info"
    /\ \/ /\ SessionID[c] \notin live       \* a == nil, err == nil
          /\ SessionID' = [SessionID EXCEPT ![c] = 0]
          /\ loop' = SetLoop(c, i, [loop[c][i] EXCEPT !.pc = "wait", !.ls = 0, !.ret = "false"])
       \/ /\ loop' = SetLoop(c, i, [loop[c][i] EXCEPT !.pc = "wait", !.ls = 0, !.ret = "err"])
          /\ UNCHANGED SessionID
       \/ /\ SessionID[c] \in live
          /\ loop' = SetLoop(c, i, [loop[c][i] EXCEPT !.pc = "lock"])
          /\ UNCHANGED SessionID
    /\ UNCHANGED <<cfgVars, PermanentRelease, callerVars, episodes, destroyVars, consulVars>>

\* A new holding episode: doneCh is made, the watcher waits on resp, the
\* renewal goroutine has not read d.SessionID yet.
\*   sess the session the lock was attached under
\*   w    where the watcher stands
\*   done how many times doneCh was closed
\*   r    where the renewal goroutine stands
\*   rs   the session id it handed to RenewPeriodic
NewEpisode(s) == [sess |-> s, w |-> "wait", done |-> 0, r |-> "start", rs |-> 0]

\* Faulty variant: a nil resp (the key is held by another session) is taken for
\* ownership as well.
MutLockAttach(c, i) ==
    /\ loop[c][i].pc = "lock"
    /\ \/ /\ loop' = SetLoop(c, i, [loop[c][i] EXCEPT !.pc = "wait", !.ls = 0, !.ret = "err"])
          /\ UNCHANGED <<episodes, holder>>
       \/ /\ loop[c][i].ls \in live
          /\ holder' = IF holder = 0 THEN loop[c][i].ls ELSE holder
          /\ episodes' = [episodes EXCEPT ![c] = Append(@, NewEpisode(loop[c][i].ls))]
          /\ loop' = SetLoop(c, i, [loop[c][i] EXCEPT
                        !.pc = "send", !.ls = 0, !.ret = "true", !.stopped = TRUE])
    /\ UNCHANGED <<cfgVars, clientVars, callerVars, destroyVars, live, nextSid>>

\* acquireLock, lock.Lock(nil) and what follows; on success RetryLockAcquire
\* stops the ticker and stands at `acquired <- true`.
LockAttach(c, i) ==
    /\ loop[c][i].pc = "lock"
    /\ \/ /\ loop' = SetLoop(c, i, [loop[c][i] EXCEPT !.pc = "wait", !.ls = 0, !.ret = "err"])
          /\ UNCHANGED <<episodes, holder>>
       \/ /\ holder \notin {0, loop[c][i].ls}   \* resp == nil: held by another session
          /\ loop' = SetLoop(c, i, [loop[c][i] EXCEPT !.pc = "wait", !.ls = 0, !.ret = "false"])
          /\ UNCHANGED <<episodes, holder>>
       \/ /\ loop[c][i].ls \in live             \* resp != nil
          /\ holder \in {0, loop[c][i].ls}
          /\ holder' = loop[c][i].ls
          /\ episodes' = [episodes EXCEPT ![c] = Append(@, NewEpisode(loop[c][i].ls))]
          /\ loop' = SetLoop(c, i, [loop[c][i] EXCEPT
                        !.pc = "send", !.ls = 0, !.ret = "true", !.stopped = TRUE])
    /\ UNCHANGED <<cfgVars, clientVars, callerVars, destroyVars, live, nextSid>>

\* Faulty variant: the break after the send is missing.
MutDlockSendAcquired(c, i) ==
    /\ variant[c] = "Dlock"
    /\ loop[c][i].pc = "send"
    /\ callerPc[c] = "waitAcq"
    /\ nAcq' = [nAcq EXCEPT ![c] = @ + 1]
    /\ callerPc' = [callerPc EXCEPT ![c] = "waitRel"]
    /\ \E t \in BOOLEAN :
          loop' = SetLoop(c, i, [loop[c][i] EXCEPT !.pc = "wait", !.tick = t])
    /\ UNCHANGED <<cfgVars, clientVars, calls, episodes, nRel, destroyVars, consulVars>>

\* Faulty variant: acquired is a buffered channel, the send does not wait
\* for the caller.
MutDlockSendBuffered(c, i) ==
    /\ variant[c] = "Dlock"
    /\ loop[c][i].pc = "send"
    /\ loop' = SetLoop(c, i, [loop[c][i] EXCEPT !.pc = "returned"])
    /\ UNCHANGED <<cfgVars, clientVars, callerVars, episodes, destroyVars, consulVars>>

\* Dlock: acquired <- true; break
DlockSendAcquired(c, i) ==
    /\ variant[c] = "Dlock"
    /\ loop[c][i].pc = "send"
    /\ callerPc[c] = "waitAcq"
    /\ nAcq' = [nAcq EXCEPT ![c] = @ + 1]
    /\ callerPc' = [callerPc EXCEPT ![c] = "waitRel"]
    /\ loop' = SetLoop(c, i, [loop[c][i] EXCEPT !.pc = "returned"])
    /\ UNCHANGED <<cfgVars, clientVars, calls, episodes, nRel, destroyVars, consulVars>>

\* Client: acquired <- true, and the loop goes on to <-ticker.C.  Stop does
\* not drain ticker.C: a tick that fired while acquireLock ran or while the
\* send was blocked is still there to be received.
ClientSendAcquired(c, i) ==
    /\ variant[c] = "Client"
    /\ loop[c][i].pc = "send"
    /\ callerPc[c] = "waitAcq"
    /\ nAcq' = [nAcq EXCEPT ![c] = @ + 1]
    /\ callerPc' = [callerPc EXCEPT ![c] = "waitRel"]
    /\ \E t \in BOOLEAN :
          loop' = SetLoop(c, i, [loop[c][i] EXCEPT !.pc = "wait", !.tick = t])
    /\ UNCHANGED <<cfgVars, clientVars, calls, episodes, nRel, destroyVars, consulVars>>

----------------------------------------------------------------------------
\* The goroutines of a holding episode

SetEpisode(c, k, e) == [episodes EXCEPT ![c][k] = e]

\* go func() { RenewPeriodic(ttl, d.SessionID, nil, doneCh) }: d.SessionID is
\* read when the goroutine runs.
RenewStart(c, k) ==
    /\ k \in DOMAIN episodes[c]
    /\ episodes[c][k].r = "start"
    /\ episodes' = SetEpisode(c, k, [episodes[c][k] EXCEPT !.r = "run", !.rs = SessionID[c]])
    /\ UNCHANGED <<cfgVars, clientVars, loop, callerVars, destroyVars, consulVars>>

\* Faulty variant: RenewPeriodic returns only after the watcher has handed
\* over released.
MutRenewStop(c, k) ==
    /\ k \in DOMAIN episodes[c]
    /\ episodes[c][k].r = "run"
    /\ episodes[c][k].w = "exit"
    /\ episodes' = SetEpisode(c, k, [episodes[c][k] EXCEPT !.r = "stop"])
    /\ UNCHANGED <<cfgVars, clientVars, loop, callerVars, destroyVars, consulVars>>

\* RenewPeriodic returns once doneCh is closed.
RenewStop(c, k) ==
    /\ k \in DOMAIN episodes[c]
    /\ episodes[c][k].r = "run"
    /\ episodes[c][k].done > 0
    /\ episodes' = SetEpisode(c, k, [episodes[c][k] EXCEPT !.r = "stop"])
    /\ UNCHANGED <<cfgVars, clientVars, loop, callerVars, destroyVars, consulVars>>

\* Faulty variant: the watcher does not wait for resp.
MutWatcherFire(c, k) ==
    /\ k \in DOMAIN episodes[c]
    /\ episodes[c][k].w = "wait"
    /\ episodes' = SetEpisode(c, k, [episodes[c][k] EXCEPT !.w = "send", !.done = @ + 1])
    /\ UNCHANGED <<cfgVars, clientVars, loop, callerVars, destroyVars, consulVars>>

\* Faulty variant: the watcher goes to its send without closing doneCh.
MutWatcherFireNoClose(c, k) ==
    /\ k \in DOMAIN episodes[c]
    /\ episodes[c][k].w = "wait"
    /\ episodes[c][k].sess \notin live
    /\ episodes' = SetEpisode(c, k, [episodes[c][k] EXCEPT !.w = "send"])
    /\ UNCHANGED <<cfgVars, clientVars, loop, callerVars, destroyVars, consulVars>>

\* <-resp; close(doneCh): resp is closed once the session no longer owns the
\* key.  The watcher then stands at `released <- true`.
WatcherFire(c, k) ==
    /\ k \in DOMAIN episodes[c]
    /\ episodes[c][k].w = "wait"
    /\ episodes[c][k].sess \notin live
    /\ episodes' = SetEpisode(c, k, [episodes[c][k] EXCEPT !.w = "send", !.done = @ + 1])
    /\ UNCHANGED <<cfgVars, clientVars, loop, callerVars, destroyVars, consulVars>>

\* Faulty variant: the send on released does not wait for the caller's receive.
MutWatcherSend(c, k) ==
    /\ k \in DOMAIN episodes[c]
    /\ episodes[c][k].w = "send"
    /\ nRel' = [nRel EXCEPT ![c] = @ + 1]
    /\ callerPc' = [callerPc EXCEPT ![c] = IF @ = "waitRel" THEN "start" ELSE @]
    /\ episodes' = SetEpisode(c, k, [episodes[c][k] EXCEPT !.w = "exit"])
    /\ UNCHANGED <<cfgVars, clientVars, loop, calls, nAcq, destroyVars, consulVars>>

\* Faulty variant: the watcher empties SessionID once released is handed over.
MutWatcherSendClears(c, k) ==
    /\ k \in DOMAIN episodes[c]
    /\ episodes[c][k].w = "send"
    /\ callerPc[c] = "waitRel"
    /\ nRel' = [nRel EXCEPT ![c] = @ + 1]
    /\ callerPc' = [callerPc EXCEPT ![c] = "start"]
    /\ episodes' = SetEpisode(c, k, [episodes[c][k] EXCEPT !.w = "exit"])
    /\ SessionID' = [SessionID EXCEPT ![c] = 0]
    /\ UNCHANGED <<cfgVars, PermanentRelease, loop, calls, nAcq, destroyVars, consulVars>>

\* released <- true
WatcherSend(c, k) ==
    /\ k \in DOMAIN episodes[c]
    /\ episodes[c][k].w = "send"
    /\ callerPc[c] = "waitRel"
    /\ nRel' = [nRel EXCEPT ![c] = @ + 1]
    /\ callerPc' = [callerPc EXCEPT ![c] = "start"]
    /\ episodes' = SetEpisode(c, k, [episodes[c][k] EXCEPT !.w = "exit"])
    /\ UNCHANGED <<cfgVars, clientVars, loop, calls, nAcq, destroyVars, consulVars>>

----------------------------------------------------------------------------
\* DestroySession

\* Faulty variant: an empty SessionID marks the permanent release as well.
MutDestroyCall(c) ==
    /\ dpc[c] = "idle"
    /\ dcalls[c] < destroys[c]
    /\ dcalls' = [dcalls EXCEPT ![c] = @ + 1]
    /\ IF SessionID[c] = 0
         THEN /\ dres' = [dres EXCEPT ![c] = "empty"]
              /\ PermanentRelease' = [PermanentRelease EXCEPT ![c] = TRUE]
              /\ UNCHANGED dpc
         ELSE /\ dpc' = [dpc EXCEPT ![c] = "call"]
              /\ dres' = [dres EXCEPT ![c] = "none"]
              /\ UNCHANGED PermanentRelease
    /\ UNCHANGED <<cfgVars, SessionID, loop, callerVars, episodes, consulVars>>

\* The SessionID == "" check.
DestroyCall(c) ==
    /\ dpc[c] = "idle"
    /\ dcalls[c] < destroys[c]
    /\ dcalls' = [dcalls EXCEPT ![c] = @ + 1]
    /\ IF SessionID[c] = 0
         THEN /\ dres' = [dres EXCEPT ![c] = "empty"]
              /\ UNCHANGED dpc
         ELSE /\ dpc' = [dpc EXCEPT ![c] = "call"]
              /\ dres' = [dres EXCEPT ![c] = "none"]
    /\ UNCHANGED <<cfgVars, clientVars, loop, callerVars, episodes, consulVars>>

\* Session().Destroy(d.SessionID, nil) succeeds.
DestroyOK(c) ==
    /\ dpc[c] = "call"
    /\ SessionID[c] # 0
    /\ live' = live \ {SessionID[c]}
    /\ holder' = Release(SessionID[c])
    /\ dpc' = [dpc EXCEPT ![c] = "set"]
    /\ UNCHANGED <<cfgVars, clientVars, loop, callerVars, episodes, dres, dcalls, nextSid>>

\* Faulty variant: PermanentRelease is set before the error is looked at.
MutDestroyErr(c) ==
    /\ dpc[c] = "call"
    /\ dpc' = [dpc EXCEPT ![c] = "idle"]
    /\ dres' = [dres EXCEPT ![c] = "err"]
    /\ PermanentRelease' = [PermanentRelease EXCEPT ![c] = TRUE]
    /\ UNCHANGED <<cfgVars, SessionID, loop, callerVars, episodes, dcalls, consulVars>>

\* Session().Destroy(d.SessionID, nil) fails: return err.
DestroyErr(c) ==
    /\ dpc[c] = "call"
    /\ dpc' = [dpc EXCEPT ![c] = "idle"]
    /\ dres' = [dres EXCEPT ![c] = "err"]
    /\ UNCHANGED <<cfgVars, clientVars, loop, callerVars, episodes, dcalls, consulVars>>

\* Faulty variant: DestroySession empties SessionID on its way out.
MutDlockDestroySetClears(c) ==
    /\ variant[c] = "Dlock"
    /\ dpc[c] = "set"
    /\ PermanentRelease' = [PermanentRelease EXCEPT ![c] = TRUE]
    /\ SessionID' = [SessionID EXCEPT ![c] = 0]
    /\ dpc' = [dpc EXCEPT ![c] = "idle"]
    /\ dres' = [dres EXCEPT ![c] = "ok"]
    /\ UNCHANGED <<cfgVars, loop, callerVars, episodes, dcalls, consulVars>>

\* Dlock: d.PermanentRelease = true; return nil
DlockDestroySet(c) ==
    /\ variant[c] = "Dlock"
    /\ dpc[c] = "set"
    /\ PermanentRelease' = [PermanentRelease EXCEPT ![c] = TRUE]
    /\ dpc' = [dpc EXCEPT ![c] = "idle"]
    /\ dres' = [dres EXCEPT ![c] = "ok"]
    /\ UNCHANGED <<cfgVars, SessionID, loop, callerVars, episodes, dcalls, consulVars>>

\* Client: return nil
ClientDestroyReturn(c) ==
    /\ variant[c] = "Client"
    /\ dpc[c] = "set"
    /\ dpc' = [dpc EXCEPT ![c] = "idle"]
    /\ dres' = [dres EXCEPT ![c] = "ok"]
    /\ UNCHANGED <<cfgVars, clientVars, loop, callerVars, episodes, dcalls, consulVars>>

----------------------------------------------------------------------------
\* The collaborator: a session ends (TTL expiry, failed health check).
SessionExpire(s) ==
    /\ s \in live
    /\ live' = live \ {s}
    /\ holder' = Release(s)
    /\ UNCHANGED <<cfgVars, clientVars, loop, callerVars, episodes, destroyVars, nextSid>>

----------------------------------------------------------------------------
Episodes == 1..(2 * MaxCalls)

CallerSteps == \E c \in Clients : CallerStart(c)

LoopSteps ==
    \E c \in Clients, i \in Calls :
        \/ Tick(c, i)
        \/ AcquireSession(c, i)
        \/ SessionInfo(c, i)
        \/ LockAttach(c, i)

WatcherSteps ==
    \E c \in Clients, k \in Episodes :
        \/ WatcherFire(c, k)
        \/ WatcherSend(c, k)

RenewSteps ==
    \E c \in Clients, k \in Episodes :
        \/ RenewStart(c, k)
        \/ RenewStop(c, k)

DestroySteps ==
    \E c \in Clients :
        \/ DestroyCall(c)
        \/ DestroyOK(c)
        \/ DestroyErr(c)

DlockSteps ==
    \/ \E c \in Clients, i \in Calls : DlockRetryEntry(c, i)
    \/ \E c \in Clients, i \in Calls : DlockSendAcquired(c, i)
    \/ \E c \in Clients : DlockDestroySet(c)

ClientSteps ==
    \/ \E c \in Clients, i \in Calls : ClientRetryEntry(c, i)
    \/ \E c \in Clients, i \in Calls : ClientSendAcquired(c, i)
    \/ \E c \in Clients : ClientDestroyReturn(c)

ConsulSteps == \E s \in 1..MaxSessions : SessionExpire(s)

\* One client of the current variant, all its goroutines.
Next ==
    \/ CallerSteps
    \/ LoopSteps
    \/ WatcherSteps
    \/ RenewSteps
    \/ DestroySteps
    \/ DlockSteps
    \/ ConsulSteps

\* Both variants.  The renewal goroutines write nothing the other tasks
\* read: their steps are left out here and in NextA.
NextVariants ==
    \/ CallerSteps
    \/ LoopSteps
    \/ WatcherSteps
    \/ DestroySteps
    \/ DlockSteps
    \/ ClientSteps
    \/ ConsulSteps

\* Clients of the current variant, without their renewal goroutines.
NextA ==
    \/ CallerSteps
    \/ LoopSteps
    \/ WatcherSteps
    \/ DestroySteps
    \/ DlockSteps
    \/ ConsulSteps

Spec == Init /\ [][Next]_vars

SpecVariants == InitVariants /\ [][NextVariants]_vars

SpecA == InitA /\ [][NextA]_vars

\* A step of the i-th RetryLockAcquire goroutine of c.
LoopStep(c, i) ==
    \/ DlockRetryEntry(c, i)
    \/ Tick(c, i)
    \/ AcquireSession(c, i)
    \/ SessionInfo(c, i)
    \/ LockAttach(c, i)
    \/ DlockSendAcquired(c, i)

\* The retry goroutine that can run does run (the ticker ticks), and a
\* collaborator call that is made again and again does not fail every time.
\* There is one client here, and its invocations do not overlap.
Fairness ==
    /\ WF_vars(\E c \in Clients, i \in Calls : LoopStep(c, i))
    /\ SF_vars(\E c \in Clients, i \in Calls : AcquireSession(c, i) /\ SessionID'[c] # 0)
    /\ SF_vars(\E c \in Clients, i \in Calls : SessionInfo(c, i) /\ loop'[c][i].ret # "err")

FairSpec == Init /\ [][NextA]_vars /\ Fairness

\* One client of the current variant whose caller calls DestroySession once
\* more than elsewhere: a call is made after one has succeeded.
InitD ==
    /\ variant = [c \in Clients |-> IF c = 1 THEN "Dlock" ELSE "off"]
    /\ destroys = [c \in Clients |-> IF c = 1 THEN MaxDestroy + 1 ELSE 0]
    /\ InitCommon

SpecD == InitD /\ [][Next]_vars

\* One client of the current variant whose caller never calls DestroySession:
\* its sessions end at the collaborator only.
InitE ==
    /\ variant = [c \in Clients |-> IF c = 1 THEN "Dlock" ELSE "off"]
    /\ destroys = [c \in Clients |-> 0]
    /\ InitCommon

NextE ==
    \/ CallerSteps
    \/ LoopSteps
    \/ WatcherSteps
    \/ RenewSteps
    \/ \E c \in Clients, i \in Calls : DlockRetryEntry(c, i)
    \/ \E c \in Clients, i \in Calls : DlockSendAcquired(c, i)
    \/ ConsulSteps

\* The goroutines of a holding episode are scheduled: a watcher whose resp
\* is closed runs up to its send, a renewal goroutine starts, and returns
\* once doneCh is closed.  Nothing is assumed about the caller.
EpisodeFairness ==
    /\ WF_vars(\E c \in Clients, k \in Episodes : WatcherFire(c, k))
    /\ WF_vars(\E c \in Clients, k \in Episodes : RenewStart(c, k) \/ RenewStop(c, k))

FairEpisodes == InitE /\ [][NextE]_vars /\ EpisodeFairness

----------------------------------------------------------------------------
\* Properties
DlockClients == {c \in Clients : variant[c] = "Dlock"}

LoopsAt(c, pcs) == {i \in Calls : loop[c][i].pc \in pcs}

EpisodesAt(c, ws) == {k \in DOMAIN episodes[c] : episodes[c][k].w \in ws}

\* C1: once PermanentRelease is true, no value is sent on the acquired
\* channel of that Dlock.
C1_NoAcquiredWhilePermanentlyReleased ==
    [][\A c \in DlockClients : PermanentRelease[c] => nAcq'[c] = nAcq[c]]_vars

\* C2: on a Dlock every successful attach is followed by exactly one send on
\* acquired from the invocation that attached, which then stops its ticker
\* and returns without another attempt; an invocation whose acquireLock did
\* not return true never stands at the send.
C2_OneAcquiredPerAttach ==
    \A c \in DlockClients :
        /\ Len(episodes[c]) = nAcq[c] + Cardinality(LoopsAt(c, {"send"}))
        /\ Len(episodes[c]) = Cardinality(LoopsAt(c, {"send", "returned"}))
        /\ nAcq[c] = Cardinality(LoopsAt(c, {"returned"}))
        /\ \A i \in Calls :
              /\ loop[c][i].ret = "true" <=> loop[c][i].pc \in {"send", "returned"}
              /\ loop[c][i].pc \in {"send", "returned"} => loop[c][i].stopped

C2_Witness ==
    \E c \in DlockClients : nAcq[c] = 2 /\ Len(episodes[c]) = 2

\* C3: every value received from the released channel was sent by the
\* watcher of one successful attach, each watcher sends at most one, it does
\* so only after the session of its attach has lost the key, and no session
\* is attached twice, so that one loss makes one watcher send.
C3_OneReleasedPerLoss ==
    \A c \in Clients :
        /\ nRel[c] = Cardinality(EpisodesAt(c, {"exit"}))
        /\ nRel[c] <= Len(episodes[c])
        /\ \A k \in EpisodesAt(c, {"send", "exit"}) : episodes[c][k].sess \notin live
        /\ \A k \in DOMAIN episodes[c] : \A m \in DOMAIN episodes[c] :
              k # m => episodes[c][k].sess # episodes[c][m].sess

C3_Witness ==
    \E c \in Clients : nRel[c] = 2 /\ Len(episodes[c]) = 2

\* C4: the released signal of the k-th holding episode is delivered only
\* after the acquired signal of that episode.
C4_AcquiredBeforeReleased ==
    \A c \in DlockClients :
        \A k \in EpisodesAt(c, {"exit"}) : nAcq[c] >= k

C4_Witness ==
    \E c \in DlockClients :
        /\ Len(episodes[c]) = 2
        /\ episodes[c][2].w = "exit"
        /\ nAcq[c] = 2

\* C5 as stated: an invocation of RetryLockAcquire started after
\* DestroySession returned nil does nothing.
C5_NoopAfterDestroyReturnedNil ==
    \A c \in DlockClients : \A i \in Calls :
        loop[c][i].d \in {"ok", "empty"} => loop[c][i].pc \in {"entry", "noop"}

\* C5, amended: an invocation of RetryLockAcquire started after
\* DestroySession destroyed the session and returned nil does nothing: it
\* never gets past the PermanentRelease check.
C5_NoopAfterSessionDestroyed ==
    \A c \in DlockClients : \A i \in Calls :
        loop[c][i].d = "ok" =>
            /\ loop[c][i].pc \in {"entry", "noop"}
            /\ loop[c][i].ls = 0
            /\ loop[c][i].ret = "none"
            /\ ~loop[c][i].stopped

C5_Witness ==
    \E c \in DlockClients : \E i \in Calls :
        loop[c][i].d = "ok" /\ loop[c][i].pc = "noop"

\* A client holds the key at the collaborator: the session of one of its
\* holding episodes is still there.
Holds(c) == \E k \in DOMAIN episodes[c] : episodes[c][k].sess \in live

\* The caller of c is between an acquired and the released that follows it.
CallerHolds(c) == nAcq[c] > nRel[c]

\* C6 as stated: a client's acquired is never delivered while the other
\* client's caller has received acquired and not yet the released after it.
C6_OneCallerHoldsAtATime ==
    \A c \in Clients, d \in Clients :
        c # d => ~(CallerHolds(c) /\ CallerHolds(d))

\* C6, amended: no attach succeeds while the session of another client's
\* attach still owns the key, so at most one client at a time has a holding
\* episode whose session is there and that session is the owner of the key;
\* a client that never attached has sent nothing on either channel.
C6_OneClientHoldsAtATime ==
    /\ \A c \in Clients, d \in Clients : c # d => ~(Holds(c) /\ Holds(d))
    /\ \A c \in Clients : \A k \in DOMAIN episodes[c] :
          episodes[c][k].sess \in live => holder = episodes[c][k].sess
    /\ \A c \in Clients :
          Len(episodes[c]) = 0 =>
              nAcq[c] = 0 /\ nRel[c] = 0 /\ LoopsAt(c, {"send", "returned"}) = {}

\* One client holds and its caller knows; the other one's attach came back
\* without ownership and it waits for the next tick, having sent nothing.
C6_Witness ==
    \E c \in Clients, d \in Clients :
        /\ c # d
        /\ Holds(c) /\ CallerHolds(c)
        /\ Len(episodes[d]) = 0 /\ nAcq[d] = 0 /\ nRel[d] = 0
        /\ \E i \in Calls : loop[d][i].pc = "wait" /\ loop[d][i].ret = "false"
                            /\ SessionID[d] \in live

\* C7: when a tick ended because Session.Info reported the session gone, the
\* same retry loop later stands at the lock attach with a session created
\* since, unless the collaborator hands out no more sessions.
C7_RecreatesAndReattempts ==
    \A c \in Clients : \A i \in Calls :
        (loop[c][i].pc = "wait" /\ loop[c][i].ret = "false" /\ SessionID[c] \notin live)
            ~> (loop[c][i].pc = "lock" \/ nextSid > MaxSessions)

C7_Witness ==
    \E c \in Clients : \E i \in Calls :
        /\ loop[c][i].pc = "lock"
        /\ SessionID[c] >= 2
        /\ SessionID[c] \in live
        /\ Len(episodes[c]) = 0

\* C8: a Session.Info that answers nil without error for a session that is
\* gone clears SessionID and ends the tick with (false, nil), with no attach,
\* no new episode and nothing received from either channel; the tick that
\* finds SessionID empty creates a session before anything else, or ends
\* with an error.
C8_InvalidSessionIsCleared ==
    [][\A c \in Clients : \A i \in Calls :
          /\ (/\ loop[c][i].pc = "info"
              /\ SessionID[c] \notin live
              /\ loop'[c][i] # loop[c][i]
              /\ loop'[c][i].ret # "err")
             => /\ SessionID'[c] = 0
                /\ loop'[c][i].pc = "wait"
                /\ loop'[c][i].ret = "false"
                /\ UNCHANGED <<episodes, nAcq, nRel, live, holder>>
          /\ (/\ loop[c][i].pc = "acquire"
              /\ SessionID[c] = 0
              /\ loop'[c][i] # loop[c][i])
             => \/ /\ loop'[c][i].pc = "wait"
                   /\ loop'[c][i].ret = "err"
                   /\ UNCHANGED <<SessionID, live, holder, episodes>>
                \/ /\ loop'[c][i].pc = "info"
                   /\ SessionID'[c] = nextSid
                   /\ nextSid \notin live
                   /\ live' = live \cup {nextSid}
                   /\ UNCHANGED <<holder, episodes>>
      ]_vars

\* The session was reported gone, and the next tick has created another one;
\* nothing was attached or sent meanwhile.
C8_Witness ==
    \E c \in Clients : \E i \in Calls :
        /\ loop[c][i].pc = "info"
        /\ SessionID[c] = 2
        /\ 1 \notin live
        /\ Len(episodes[c]) = 0
        /\ nAcq[c] = 0 /\ nRel[c] = 0

\* A step of DestroySession that found SessionID empty.
DestroyedEmpty(c) == dcalls'[c] = dcalls[c] + 1 /\ SessionID[c] = 0

\* C9 as stated: DestroySession with an empty SessionID returns nil without
\* a collaborator call; Client leaves the permanent release as it is, Dlock
\* sets it.
C9_EmptyDestroySetsFlagOnDlock ==
    [][\A c \in Clients :
          DestroyedEmpty(c) =>
              /\ dres'[c] = "empty"
              /\ dpc'[c] = "idle"
              /\ UNCHANGED <<live, holder, nextSid>>
              /\ variant[c] = "Client" => PermanentRelease'[c] = PermanentRelease[c]
              /\ variant[c] = "Dlock" => PermanentRelease'[c]
      ]_vars

\* C9, amended: DestroySession with an empty SessionID returns nil without a
\* collaborator call and leaves the permanent release as it is, in both
\* variants.
C9_EmptyDestroyChangesNothing ==
    [][\A c \in Clients :
          DestroyedEmpty(c) =>
              /\ dres'[c] = "empty"
              /\ dpc'[c] = "idle"
              /\ UNCHANGED <<live, holder, nextSid, SessionID, PermanentRelease>>
      ]_vars

C9_Witness ==
    \E c \in DlockClients :
        dres[c] = "empty" /\ dpc[c] = "idle" /\ ~PermanentRelease[c] /\ nextSid > 1

\* C10: on a Dlock with a SessionID, DestroySession sets PermanentRelease and
\* returns nil when Session.Destroy succeeded and only then; when it failed
\* the error is returned and PermanentRelease and SessionID stay as they are.
C10_DestroySetsFlagOnSuccessOnly ==
    [][\A c \in DlockClients :
          /\ (dpc[c] = "call" /\ dpc'[c] = "idle")
             => /\ dres'[c] = "err"
                /\ UNCHANGED <<PermanentRelease, SessionID, live, holder>>
          /\ (dpc[c] = "call" /\ dpc'[c] = "set")
             => /\ SessionID[c] # 0
                /\ SessionID[c] \notin live'
                /\ UNCHANGED <<PermanentRelease, SessionID>>
          /\ (dpc[c] = "set" /\ dpc'[c] = "idle")
             => /\ dres'[c] = "ok"
                /\ PermanentRelease'[c]
                /\ UNCHANGED SessionID
          /\ PermanentRelease'[c] # PermanentRelease[c] => dpc[c] = "set"
          /\ (dres'[c] = "ok" /\ dres[c] # "ok") => dpc[c] = "set"
      ]_vars

C10_Witness ==
    \E c \in DlockClients :
        /\ dres[c] = "ok" /\ PermanentRelease[c]
        /\ SessionID[c] # 0 /\ SessionID[c] \notin live

\* The positions of a RetryLockAcquire goroutine that has left its loop.
Ended == {"returned", "noop", "blocked"}

C12_RenewalStopsAfterRelease ==
    \A c \in Clients : \A k \in Episodes :
        (k \in DOMAIN episodes[c] /\ episodes[c][k].sess \notin live)
            ~> (/\ k \in DOMAIN episodes[c]
                /\ episodes[c][k].done = 1
                /\ episodes[c][k].r = "stop")

\* The renewal goroutine has returned while the watcher still stands at its
\* send: the caller has not received released (nor, here, acquired).
C12_Witness ==
    \E c \in Clients : \E k \in DOMAIN episodes[c] :
        /\ episodes[c][k].sess \notin live
        /\ episodes[c][k].done = 1
        /\ episodes[c][k].r = "stop"
        /\ episodes[c][k].w = "send"
        /\ nRel[c] = 0
        /\ nAcq[c] = 0

\* C13: in every holding episode doneCh is closed before the watcher stands
\* at its send on released, hence before released is delivered; it is closed
\* once, by the watcher; and a renewal goroutine returns only after the close.
C13_CloseBeforeReleased ==
    \A c \in Clients : \A k \in DOMAIN episodes[c] :
        /\ episodes[c][k].done <= 1
        /\ episodes[c][k].w \in {"send", "exit"} <=> episodes[c][k].done = 1
        /\ episodes[c][k].r = "stop" => episodes[c][k].done = 1
        /\ nRel[c] = Cardinality({m \in DOMAIN episodes[c] :
                                     episodes[c][m].w = "exit" /\ episodes[c][m].done = 1})

\* One episode is over (doneCh closed, released delivered); in the next one
\* doneCh is closed and the watcher stands at its send.
C13_Witness ==
    \E c \in Clients :
        /\ Len(episodes[c]) = 2
        /\ episodes[c][1].w = "exit" /\ episodes[c][1].done = 1
        /\ episodes[c][2].w = "send" /\ episodes[c][2].done = 1
        /\ nRel[c] = 1

\* C14 as stated: SessionID is emptied in the step in which the client
\* learns that its session is gone: when Session.Info reports it gone, when
\* the watcher of the episode attached under it observes the loss, and when
\* DestroySession has destroyed it (SessionID is then empty, or a retry loop
\* has replaced it by a session that exists).
C14_ClearedOnEveryInvalidation ==
    [][\A c \in DlockClients :
          /\ \A i \in Calls :
                (/\ loop[c][i].pc = "info"
                 /\ loop'[c][i] # loop[c][i]
                 /\ loop'[c][i].ret = "false")
                => SessionID'[c] = 0
          /\ \A k \in DOMAIN episodes[c] :
                (/\ episodes[c][k].w = "wait"
                 /\ episodes'[c][k].w = "send"
                 /\ episodes[c][k].sess = SessionID[c])
                => SessionID'[c] = 0
          /\ (dpc[c] = "set" /\ dpc'[c] = "idle")
                => (SessionID'[c] = 0 \/ SessionID'[c] \in live')
      ]_vars

\* C14, amended: SessionID is either empty or the id of a session this
\* client created.  It is written by the retry loop only: set to the new
\* session when a creation succeeds on an empty SessionID, emptied when
\* Session.Info reports the session gone, and never changed otherwise.  The
\* watcher, the renewal goroutine and DestroySession leave it as it is, so
\* after an observed loss or a destroy it keeps the id of the dead session
\* until a later tick queries it.
C14_ClearedOnlyBySessionInfo ==
    [][\A c \in Clients :
          /\ SessionID'[c] # 0 => SessionID'[c] < nextSid'
          /\ SessionID'[c] # SessionID[c]
             => \E i \in Calls :
                   /\ loop'[c][i] # loop[c][i]
                   /\ IF SessionID[c] = 0
                        THEN /\ loop[c][i].pc = "acquire"
                             /\ SessionID'[c] = nextSid
                             /\ SessionID'[c] \in live' \ live
                        ELSE /\ loop[c][i].pc = "info"
                             /\ SessionID[c] \notin live
                             /\ SessionID'[c] = 0
                             /\ loop'[c][i].ret = "false"
          /\ \A i \in Calls :
                (/\ loop[c][i].pc = "info"
                 /\ loop'[c][i] # loop[c][i]
                 /\ loop'[c][i].ret = "false")
                => SessionID'[c] = 0
          /\ (episodes' # episodes \/ dpc' # dpc \/ dres' # dres \/ dcalls' # dcalls)
             => SessionID'[c] = SessionID[c]
      ]_vars

\* The session was destroyed by DestroySession, the watcher of its episode
\* has observed the loss and handed over released, and SessionID still
\* holds its id.
C14_Witness ==
    \E c \in DlockClients :
        /\ SessionID[c] # 0
        /\ SessionID[c] \notin live
        /\ dres[c] = "ok"
        /\ \E k \in DOMAIN episodes[c] :
              episodes[c][k].sess = SessionID[c] /\ episodes[c][k].w = "exit"

\* C15: PermanentRelease is false at first, becomes true only in the step
\* in which DestroySession returns nil after Session.Destroy succeeded, and
\* once true stays true through every step of every task, a further
\* DestroySession included.
C15_PermanentReleaseIsAbsorbing ==
    /\ \A c \in Clients : ~PermanentRelease[c]
    /\ [][\A c \in Clients :
             /\ PermanentRelease[c] => PermanentRelease'[c]
             /\ (PermanentRelease'[c] /\ ~PermanentRelease[c])
                => /\ variant[c] = "Dlock"
                   /\ dpc[c] = "set"
                   /\ dpc'[c] = "idle"
                   /\ dres'[c] = "ok"
         ]_vars

\* DestroySession has succeeded, a RetryLockAcquire made afterwards has
\* returned at once, and one more DestroySession has failed: the flag is
\* still set.
C15_Witness ==
    \E c \in DlockClients :
        /\ PermanentRelease[c]
        /\ dcalls[c] = MaxDestroy + 1
        /\ dpc[c] = "idle"
        /\ dres[c] = "err"
        /\ \E i \in Calls : loop[c][i].pc = "noop"

\* C16: a retry loop stands at lock.Lock only after the Session.Info of the
\* same tick answered for a session that exists; SessionID is then non-empty
\* and is the session of the LockOptions.  A tick whose session creation
\* failed ends with the error, SessionID still empty, and with no
\* Session.Info and no attach.
C16_AttachOnlyAfterLiveInfo ==
    [][\A c \in DlockClients : \A i \in Calls :
          /\ (loop'[c][i].pc = "info" /\ loop[c][i].pc # "info")
             => /\ loop[c][i].pc = "acquire"
                /\ SessionID'[c] # 0
                /\ loop'[c][i].ls = SessionID'[c]
          /\ (loop'[c][i].pc = "lock" /\ loop[c][i].pc # "lock")
             => /\ loop[c][i].pc = "info"
                /\ SessionID[c] # 0
                /\ SessionID[c] \in live
                /\ loop[c][i].ls = SessionID[c]
                /\ UNCHANGED SessionID
          /\ (loop[c][i].pc = "lock" /\ loop'[c][i] # loop[c][i])
             => /\ SessionID[c] # 0
                /\ loop[c][i].ls = SessionID[c]
                /\ Len(episodes'[c]) > Len(episodes[c]) => holder' = SessionID[c]
          /\ (/\ loop[c][i].pc = "acquire"
              /\ loop'[c][i] # loop[c][i]
              /\ SessionID[c] = 0
              /\ SessionID'[c] = 0)
             => /\ loop'[c][i].pc = "wait"
                /\ loop'[c][i].ret = "err"
                /\ UNCHANGED <<consulVars, episodes>>
      ]_vars

\* The second invocation found the old session gone, created another one,
\* had Session.Info answer for it and stands at lock.Lock.
C16_Witness ==
    \E c \in DlockClients : \E i \in Calls :
        /\ loop[c][i].pc = "lock"
        /\ loop[c][i].ls = SessionID[c]
        /\ SessionID[c] \in live
        /\ Len(episodes[c]) = 1
        /\ episodes[c][1].sess \notin live

\* C17: the renewal goroutine of every holding episode hands to
\* RenewPeriodic the session under which the lock of that episode was
\* attached, whenever it gets to run.
C17_RenewalTargetsEpisodeSession ==
    \A c \in DlockClients : \A k \in DOMAIN episodes[c] :
        episodes[c][k].r \in {"run", "stop"} => episodes[c][k].rs = episodes[c][k].sess

\* The positions of a RetryLockAcquire goroutine that is running.
Running == {"entry", "acquire", "info", "lock", "wait", "send"}

\* C18: SessionID changes only in a step of a retry loop (session creation,
\* or the Session.Info that reports the session gone), PermanentRelease only
\* in a step of DestroySession; the steps of the watcher and of the renewal
\* goroutine change neither; and with the caller of the example at most one
\* RetryLockAcquire goroutine of a Dlock is running.
C18_SingleWriterCells ==
    [][\A c \in DlockClients :
          /\ SessionID'[c] # SessionID[c]
             => \E i \in Calls :
                   /\ loop[c][i].pc \in {"acquire", "info"}
                   /\ loop'[c][i] # loop[c][i]
          /\ PermanentRelease'[c] # PermanentRelease[c]
             => dpc[c] = "set" /\ dpc'[c] # dpc[c]
          /\ (\E k \in DOMAIN episodes[c] :
                 \/ episodes'[c][k].w # episodes[c][k].w
                 \/ episodes'[c][k].r # episodes[c][k].r)
             => UNCHANGED <<SessionID, PermanentRelease>>
          /\ Cardinality(LoopsAt(c, Running)) <= 1
          /\ Cardinality(LoopsAt(c, Running))' <= 1
      ]_vars

\* The second invocation is in its loop, the first one has returned, and the
\* renewal goroutine of the first episode has not returned yet.
C18_Witness ==
    \E c \in DlockClients :
        /\ loop[c][1].pc = "returned"
        /\ loop[c][2].pc = "info"
        /\ Len(episodes[c]) = 1
        /\ episodes[c][1].r = "run"
        /\ episodes[c][1].w = "exit"

\* C19: a retry loop that attached stands at its send, with no return and
\* no tick, until the step in which the caller receives acquired; a watcher
\* that observed the loss stands at its send until the step in which the
\* caller receives released; the caller receives nothing else.  So every
\* attach is either received or pending at a send, and so is every
\* observed loss; the caller has received no more acquired than there were
\* attaches and no more released than sessions of attaches were lost.
C19_BlockingHandoff ==
    [][\A c \in DlockClients :
          /\ \A i \in Calls :
                (loop[c][i].pc = "send" /\ loop'[c][i] # loop[c][i])
                => /\ callerPc[c] = "waitAcq"
                   /\ callerPc'[c] = "waitRel"
                   /\ nAcq'[c] = nAcq[c] + 1
                   /\ loop'[c][i].pc = "returned"
          /\ \A k \in DOMAIN episodes[c] :
                (episodes[c][k].w = "send" /\ episodes'[c][k].w # "send")
                => /\ callerPc[c] = "waitRel"
                   /\ callerPc'[c] = "start"
                   /\ nRel'[c] = nRel[c] + 1
                   /\ episodes'[c][k].w = "exit"
          /\ nAcq'[c] # nAcq[c]
             => /\ nAcq'[c] = nAcq[c] + 1
                /\ \E i \in Calls : loop[c][i].pc = "send" /\ loop'[c][i].pc = "returned"
          /\ nRel'[c] # nRel[c]
             => /\ nRel'[c] = nRel[c] + 1
                /\ \E k \in DOMAIN episodes[c] :
                      episodes[c][k].w = "send" /\ episodes'[c][k].w = "exit"
          /\ Len(episodes'[c]) = nAcq'[c] + Cardinality(LoopsAt(c, {"send"}))'
          /\ Cardinality(EpisodesAt(c, {"send", "exit"}))'
                = nRel'[c] + Cardinality(EpisodesAt(c, {"send"}))'
          /\ nRel'[c] <= Cardinality({k \in DOMAIN episodes'[c] :
                                         episodes'[c][k].sess \notin live'})
      ]_vars

\* In the second episode the session went away before the caller received
\* acquired: the retry loop and the watcher both stand at their sends.
C19_Witness ==
    \E c \in DlockClients : \E i \in Calls : \E k \in DOMAIN episodes[c] :
        /\ loop[c][i].pc = "send"
        /\ episodes[c][k].w = "send"
        /\ callerPc[c] = "waitAcq"
        /\ nAcq[c] = 1
        /\ nRel[c] = 1

\* C20: as long as DestroySession is not called, a client of either variant
\* goes through the same events: every invocation of RetryLockAcquire
\* attaches at most once and makes no attempt after that, every attach has
\* its one acquired (delivered, or pending at the send), and no session is
\* attached twice, so that a loss has one watcher and one released.
C20_VariantsAgreeWithoutDestroy ==
    \A c \in Clients :
        (variant[c] # "off" /\ dcalls[c] = 0)
        => /\ Len(episodes[c]) <= calls[c]
           /\ Len(episodes[c]) = nAcq[c] + Cardinality(LoopsAt(c, {"send"}))
           /\ \A k \in DOMAIN episodes[c] : \A m \in DOMAIN episodes[c] :
                 k # m => episodes[c][k].sess # episodes[c][m].sess
           /\ \A i \in Calls :
                 loop[c][i].pc \in {"acquire", "info", "lock"} => ~loop[c][i].stopped

====
